---- MODULE Spec2Model ----
(***************************************************************************)
(* A model of mmworkbench/models/helpers.py: the three process-wide        *)
(* registries and their register/factory functions, the text and scoring   *)
(* helpers, dynamic gazetteer ingestion and the `requires` decorator.      *)
(*                                                                         *)
(* Python strings are modelled as sequences of one-character strings, so   *)
(* that joining, masking and length are computed rather than assumed.      *)
(* Python objects whose identity matters (dicts, sets) live in heaps keyed *)
(* by address.                                                             *)
(***************************************************************************)
EXTENDS Integers, Sequences, FiniteSets, TLC

VARIABLES
    MODEL_MAP,      \* helpers.py:12  model type   -> model class
    FEATURE_MAP,    \* helpers.py:11  example type -> feature dict
    LABEL_MAP,      \* helpers.py:13  label type   -> label encoder class
    call,           \* the last completed sequential call: arguments, pre-state, outcome
    pc,             \* per thread: position inside a register_* call
    local,          \* per thread: the register_* call being executed
    overwritten,    \* history: some insert replaced an existing registration
    interleaved,    \* history: some thread ran while another was inside a call
    input,          \* helper call: the function called and its arguments
    output,         \* helper call: what it returned
    done,           \* helper call: whether it has returned
    heap,           \* gazetteer ingestion: the dict objects, by address
    resource,       \* gazetteer ingestion: address of the caller's resource
    dynamic_resource, \* gazetteer ingestion: the dynamic resource (only read)
    before,         \* history: the heap when ingest_dynamic_gazetteer was called
    returned,       \* gazetteer ingestion: outcome of the call
    requirements,   \* per function: address of its `requirements` set, if set
    sets,           \* the set objects, by address
    applied,        \* history: per function, the resources declared so far
    decorated       \* the last application of a `requires` decorator

regVars == <<MODEL_MAP, FEATURE_MAP, LABEL_MAP>>
thrVars == <<pc, local, overwritten, interleaved>>
pureVars == <<input, output, done>>
gazVars == <<heap, resource, dynamic_resource, before, returned>>
reqVars == <<requirements, sets, applied, decorated>>

----------------------------------------------------------------------------
(* Values *)

None == "None"

\* The empty mapping ({} in Python).
EmptyMap == [k \in {} |-> None]

\* d[key] = value on a dict held by value.
SetItem(d, key, value) == [k \in (DOMAIN d) \cup {key} |-> IF k = key THEN value ELSE d[k]]

\* Registry keys and registered values used by the callers of the registries.
QUERY_EXAMPLE_TYPE == "query"
ENTITY_EXAMPLE_TYPE == "entity"
CLASS_LABEL_TYPE == "class"
ENTITIES_LABEL_TYPE == "entities"

ModelTypes == {"text", "tagger"}
ModelClasses == {"TextModel", "TaggerModel"}
ExampleTypes == {QUERY_EXAMPLE_TYPE, ENTITY_EXAMPLE_TYPE}
FeatureDicts == {"query_features", "entity_features"}
LabelTypes == {CLASS_LABEL_TYPE, ENTITIES_LABEL_TYPE}
LabelEncoders == {"LabelEncoder", "EntityLabelEncoder"}

Registries == {"MODEL_MAP", "FEATURE_MAP", "LABEL_MAP"}

KeysOf(reg) ==
    CASE reg = "MODEL_MAP" -> ModelTypes
      [] reg = "FEATURE_MAP" -> ExampleTypes
      [] reg = "LABEL_MAP" -> LabelTypes

ValuesOf(reg) ==
    CASE reg = "MODEL_MAP" -> ModelClasses
      [] reg = "FEATURE_MAP" -> FeatureDicts
      [] reg = "LABEL_MAP" -> LabelEncoders

\* The register_* function that guards each registry.
RegisterFn(reg) ==
    CASE reg = "MODEL_MAP" -> "register_model"
      [] reg = "FEATURE_MAP" -> "register_features"
      [] reg = "LABEL_MAP" -> "register_label"

\* The current value of a registry, by name.
Registry(reg) ==
    CASE reg = "MODEL_MAP" -> MODEL_MAP
      [] reg = "FEATURE_MAP" -> FEATURE_MAP
      [] reg = "LABEL_MAP" -> LABEL_MAP

\* Outcomes of a call: a returned value or a raised exception.
\* `value` is a tuple: the returned object (<<>> for Python's None), or what
\* the exception's message names.
Return(v) == [kind |-> "return", exc |-> None, value |-> v]
Raise(e, about) == [kind |-> "raise", exc |-> e, value |-> <<about>>]
NoOutcome == [kind |-> None, exc |-> None, value |-> <<>>]

NoCall == [fn |-> None, key |-> None, arg |-> None, pre |-> EmptyMap,
           invoked |-> NoOutcome, outcome |-> NoOutcome]

----------------------------------------------------------------------------
(* register_model / register_features / register_label                     *)

\* A register_* guard that never finds the key.
RegisterCheck_NeverPresent(map, key) == FALSE

\* `if key in MAP: raise ValueError(...)`: the outcome of the guard.
RegisterCheck(map, key) == key \in DOMAIN map

\* A register_* that stores before it tests, and so overwrites as it raises.
RegisterCall_StoreFirst(map, key, value) ==
    IF RegisterCheck(map, key)
    THEN [map |-> SetItem(map, key, value), outcome |-> Raise("ValueError", key)]
    ELSE [map |-> SetItem(map, key, value), outcome |-> Return(<<>>)]

\* The whole of one register_* call on a registry value: the new registry
\* and the outcome.
RegisterCall(map, key, value) ==
    IF RegisterCheck(map, key)
    THEN [map |-> map, outcome |-> Raise("ValueError", key)]
    ELSE [map |-> SetItem(map, key, value), outcome |-> Return(<<>>)]

register_model(model_type, model_class) ==
    LET r == RegisterCall(MODEL_MAP, model_type, model_class) IN
    /\ MODEL_MAP' = r.map
    /\ call' = [fn |-> "register_model", key |-> model_type, arg |-> model_class,
                pre |-> MODEL_MAP, invoked |-> NoOutcome, outcome |-> r.outcome]
    /\ UNCHANGED <<FEATURE_MAP, LABEL_MAP>>

register_features(example_type, features) ==
    LET r == RegisterCall(FEATURE_MAP, example_type, features) IN
    /\ FEATURE_MAP' = r.map
    /\ call' = [fn |-> "register_features", key |-> example_type, arg |-> features,
                pre |-> FEATURE_MAP, invoked |-> NoOutcome, outcome |-> r.outcome]
    /\ UNCHANGED <<MODEL_MAP, LABEL_MAP>>

register_label(label_type, label_encoder) ==
    LET r == RegisterCall(LABEL_MAP, label_type, label_encoder) IN
    /\ LABEL_MAP' = r.map
    /\ call' = [fn |-> "register_label", key |-> label_type, arg |-> label_encoder,
                pre |-> LABEL_MAP, invoked |-> NoOutcome, outcome |-> r.outcome]
    /\ UNCHANGED <<MODEL_MAP, FEATURE_MAP>>

----------------------------------------------------------------------------
(* create_model                                                            *)

\* A model class is an opaque callable: invoking it with a config either
\* returns an instance or raises. KeyError is one of the exceptions a
\* constructor can raise: by reading a missing configuration key, or by
\* calling get_label_encoder (line 75) with an unregistered label type.
ConstructorExceptions == {"KeyError", "TypeError"}

InvokeOutcomes(cls, model_type) ==
    {Return(<<cls, model_type>>)} \cup {Raise(e, cls) : e \in ConstructorExceptions}

\* try: return MODEL_MAP[config.model_type](config)
\* except KeyError: raise ValueError(msg.format(config.model_type))
\* `invoked` is the outcome of the class call when the lookup succeeded.
CreateModelOutcome(map, model_type, invoked) ==
    IF model_type \notin DOMAIN map
    THEN Raise("ValueError", model_type)
    ELSE IF invoked.kind = "raise" /\ invoked.exc = "KeyError"
         THEN Raise("ValueError", model_type)
         ELSE invoked

create_model(model_type) ==
    /\ \E invoked \in (IF model_type \in DOMAIN MODEL_MAP
                       THEN InvokeOutcomes(MODEL_MAP[model_type], model_type)
                       ELSE {NoOutcome}) :
          call' = [fn |-> "create_model", key |-> model_type, arg |-> None,
                   pre |-> MODEL_MAP, invoked |-> invoked,
                   outcome |-> CreateModelOutcome(MODEL_MAP, model_type, invoked)]
    /\ UNCHANGED regVars

----------------------------------------------------------------------------
(* The sequential registry specification                                   *)

InitThreads ==
    /\ pc = [t \in {} |-> None]
    /\ local = [t \in {} |-> None]
    /\ overwritten = FALSE
    /\ interleaved = FALSE

InitPureIdle ==
    /\ input = None
    /\ output = None
    /\ done = FALSE

InitGazIdle ==
    /\ heap = <<>>
    /\ resource = 0
    /\ dynamic_resource = None
    /\ before = <<>>
    /\ returned = NoOutcome

InitReqIdle ==
    /\ requirements = <<>>
    /\ sets = <<>>
    /\ applied = <<>>
    /\ decorated = None

Init ==
    /\ MODEL_MAP = EmptyMap
    /\ FEATURE_MAP = EmptyMap
    /\ LABEL_MAP = EmptyMap
    /\ call = NoCall
    /\ InitThreads
    /\ InitPureIdle
    /\ InitGazIdle
    /\ InitReqIdle

RegisterModel ==
    /\ \E k \in ModelTypes, c \in ModelClasses : register_model(k, c)
    /\ UNCHANGED <<thrVars, pureVars, gazVars, reqVars>>

RegisterFeatures ==
    /\ \E k \in ExampleTypes, f \in FeatureDicts : register_features(k, f)
    /\ UNCHANGED <<thrVars, pureVars, gazVars, reqVars>>

RegisterLabel ==
    /\ \E k \in LabelTypes, e \in LabelEncoders : register_label(k, e)
    /\ UNCHANGED <<thrVars, pureVars, gazVars, reqVars>>

CreateModel ==
    /\ \E k \in ModelTypes : create_model(k)
    /\ UNCHANGED <<thrVars, pureVars, gazVars, reqVars>>

Next ==
    \/ RegisterModel
    \/ RegisterFeatures
    \/ RegisterLabel
    \/ CreateModel

vars == <<regVars, call, thrVars, pureVars, gazVars, reqVars>>

Spec == Init /\ [][Next]_vars

\* C1: for each of register_model, register_features and register_label, a
\* call whose key is already in its registry raises ValueError and leaves
\* the registry unchanged, a call whose key is absent inserts exactly that
\* key with the given value, and no step ever removes or overwrites a key,
\* so every key keeps the value of its first registration.
C1_RegisterInsertOnce ==
    [][\A reg \in Registries :
          LET old == Registry(reg)
              new == Registry(reg)'
          IN /\ \A k \in DOMAIN old : k \in DOMAIN new /\ new[k] = old[k]
             /\ call'.fn = RegisterFn(reg) =>
                   /\ call'.pre = old
                   /\ IF call'.key \in DOMAIN old
                      THEN /\ call'.outcome = Raise("ValueError", call'.key)
                           /\ new = old
                      ELSE /\ call'.outcome = Return(<<>>)
                           /\ DOMAIN new = DOMAIN old \cup {call'.key}
                           /\ new[call'.key] = call'.arg]_vars

\* A second register_model for a registered type, with another class, has
\* just been refused and the first class is still registered.
C1_Witness ==
    /\ call.fn = "register_model"
    /\ call.outcome.exc = "ValueError"
    /\ call.key \in DOMAIN MODEL_MAP
    /\ MODEL_MAP[call.key] # call.arg
    /\ MODEL_MAP = call.pre

\* C2: create_model(config) returns the result of invoking the registered
\* class with config when config.model_type is registered, raises a
\* ValueError naming the type when it is not, and leaves MODEL_MAP unchanged.
C2_CreateModelContract ==
    call.fn = "create_model" =>
        /\ MODEL_MAP = call.pre
        /\ IF call.key \in DOMAIN call.pre
           THEN call.outcome = call.invoked
           ELSE call.outcome = Raise("ValueError", call.key)

----------------------------------------------------------------------------
(* Concurrent registration: threads calling register_* with no lock.       *)
(* The membership test (lines 85, 102, 120) and the store (lines 88, 106,  *)
(* 124) are separate bytecodes, so another thread can run between them.    *)

NumThreads == 2
Threads == 1..NumThreads

NoLocal == [reg |-> None, key |-> None, value |-> None]

InitRace ==
    /\ MODEL_MAP = EmptyMap
    /\ FEATURE_MAP = EmptyMap
    /\ LABEL_MAP = EmptyMap
    /\ call = NoCall
    /\ pc = [t \in Threads |-> "idle"]
    /\ local = [t \in Threads |-> NoLocal]
    /\ overwritten = FALSE
    /\ interleaved = FALSE
    /\ InitPureIdle
    /\ InitGazIdle
    /\ InitReqIdle

\* Another thread is between its membership test and its store.
OtherInsideCall(t) == \E u \in Threads \ {t} : pc[u] = "insert"

\* Registry `reg` after `reg[key] = value`; the other registries unchanged.
StoreInto(reg, key, value) ==
    /\ MODEL_MAP' = IF reg = "MODEL_MAP" THEN SetItem(MODEL_MAP, key, value) ELSE MODEL_MAP
    /\ FEATURE_MAP' = IF reg = "FEATURE_MAP" THEN SetItem(FEATURE_MAP, key, value) ELSE FEATURE_MAP
    /\ LABEL_MAP' = IF reg = "LABEL_MAP" THEN SetItem(LABEL_MAP, key, value) ELSE LABEL_MAP

\* Thread t enters a register_* call and evaluates `if key in MAP`: it
\* raises ValueError when the key is present, and goes on to the store
\* otherwise.
ThreadCheck(t) ==
    /\ pc[t] = "idle"
    /\ \E reg \in Registries : \E key \in KeysOf(reg), value \in ValuesOf(reg) :
          /\ local' = [local EXCEPT ![t] = [reg |-> reg, key |-> key, value |-> value]]
          /\ pc' = [pc EXCEPT ![t] = IF RegisterCheck(Registry(reg), key)
                                     THEN "raised" ELSE "insert"]
    /\ interleaved' = (interleaved \/ OtherInsideCall(t))
    /\ UNCHANGED <<regVars, call, overwritten, pureVars, gazVars, reqVars>>

\* Thread t executes `MAP[key] = value` and returns.
ThreadInsert(t) ==
    /\ pc[t] = "insert"
    /\ StoreInto(local[t].reg, local[t].key, local[t].value)
    /\ pc' = [pc EXCEPT ![t] = "returned"]
    /\ overwritten' = (overwritten \/ local[t].key \in DOMAIN Registry(local[t].reg))
    /\ interleaved' = (interleaved \/ OtherInsideCall(t))
    /\ UNCHANGED <<call, local, pureVars, gazVars, reqVars>>

NextRace == \E t \in Threads : ThreadCheck(t) \/ ThreadInsert(t)

SpecRace == InitRace /\ [][NextRace]_vars

\* C10: registration is a check-then-insert with no lock. A thread that
\* finds the key present raises and stores nothing, so a registration is
\* overwritten only when calls were interleaved: some thread ran while
\* another was between its check and its insert. The witness is the
\* interleaving in which both threads pass the check, neither raises, and
\* the later insert overwrites the earlier one.
C10_OverwriteOnlyWhenInterleaved ==
    /\ overwritten => interleaved
    /\ \A t \in Threads :
          pc[t] = "raised" => local[t].key \in DOMAIN Registry(local[t].reg)

\* Two threads registered the same key of the same registry with different
\* values, both returned without ValueError, and one registration was
\* overwritten by the other.
C10_Witness ==
    \E t \in Threads, u \in Threads :
        /\ t # u
        /\ pc[t] = "returned" /\ pc[u] = "returned"
        /\ local[t].reg = local[u].reg
        /\ local[t].key = local[u].key
        /\ local[t].value # local[u].value
        /\ overwritten
        /\ Registry(local[t].reg)[local[t].key] = local[u].value

----------------------------------------------------------------------------
(* Text helpers: mask_numerics, get_ngram                                  *)

Min(a, b) == IF a < b THEN a ELSE b

\* All sequences over S of length at most n.
SeqsUpTo(S, n) == UNION {[1..k -> S] : k \in 0..n}

Digits == {"0", "1", "2", "3", "4", "5", "6", "7", "8", "9"}
IsDigit(c) == c \in Digits

\* str.isdigit(): every character is a digit and there is at least one.
isdigit(token) == Len(token) > 0 /\ \A i \in 1..Len(token) : IsDigit(token[i])

\* A substitution that replaces the first digit only (count=1).
ReSubDigits_FirstOnly(token) ==
    IF \E i \in 1..Len(token) : IsDigit(token[i])
    THEN LET first == CHOOSE i \in 1..Len(token) :
                         IsDigit(token[i]) /\ \A j \in 1..(i - 1) : ~IsDigit(token[j])
         IN [i \in 1..Len(token) |-> IF i = first THEN "8" ELSE token[i]]
    ELSE token

\* re.sub(r'\d', '8', token): scan left to right, each digit becomes '8'.
RECURSIVE ReSubDigits(_)
ReSubDigits(token) ==
    IF token = <<>> THEN <<>>
    ELSE <<IF IsDigit(Head(token)) THEN "8" ELSE Head(token)>> \o ReSubDigits(Tail(token))

NUM == <<"#", "N", "U", "M">>

mask_numerics(token) ==
    IF isdigit(token) THEN NUM ELSE ReSubDigits(token)

OUT_OF_BOUNDS_TOKEN == <<"<", "$", ">">>

\* ' '.join(items)
RECURSIVE Join(_)
Join(items) ==
    IF items = <<>> THEN <<>>
    ELSE IF Len(items) = 1 THEN items[1]
    ELSE items[1] \o <<" ">> \o Join(Tail(items))

\* A lookup that guards only the upper end, so that a negative index is
\* resolved from the end of the list as Python's tokens[index] does.
NgramToken_NegativeFromEnd(tokens, index) ==
    IF index >= Len(tokens) THEN OUT_OF_BOUNDS_TOKEN
    ELSE IF index < 0
         THEN (IF Len(tokens) + index >= 0 THEN tokens[Len(tokens) + index + 1]
               ELSE OUT_OF_BOUNDS_TOKEN)
         ELSE tokens[index + 1]

\* OUT_OF_BOUNDS_TOKEN if index < 0 or index >= len(tokens) else tokens[index]
\* (index is zero-based as in Python).
NgramToken(tokens, index) ==
    IF index < 0 \/ index >= Len(tokens) THEN OUT_OF_BOUNDS_TOKEN ELSE tokens[index + 1]

\* for index in range(start, stop): ngram_tokens.append(token)
RECURSIVE NgramLoop(_, _, _, _)
NgramLoop(tokens, index, stop, ngram_tokens) ==
    IF index >= stop THEN ngram_tokens
    ELSE NgramLoop(tokens, index + 1, stop, Append(ngram_tokens, NgramToken(tokens, index)))

get_ngram(tokens, start, length) ==
    Join(NgramLoop(tokens, start, start + length, <<>>))

----------------------------------------------------------------------------
(* Scoring helpers: sequence_accuracy_scoring, entity_seqs_equal           *)

\* A score is the exact quotient num/den; the integer 0 is 0/1.
Score(num, den) == [num |-> num, den |-> den]
Zero == Score(0, 1)

\* sum(1 for yseq_true, yseq_pred in zip(y_true, y_pred) if yseq_true == yseq_pred)
RECURSIVE ZipMatches(_, _)
ZipMatches(y_true, y_pred) ==
    IF y_true = <<>> \/ y_pred = <<>> THEN 0
    ELSE (IF Head(y_true) = Head(y_pred) THEN 1 ELSE 0)
         + ZipMatches(Tail(y_true), Tail(y_pred))

\* A scorer that divides by the number of predictions.
SeqAccuracyTotal_Pred(y_true, y_pred) == Len(y_pred)

\* total = len(y_true)
SeqAccuracyTotal(y_true, y_pred) == Len(y_true)

sequence_accuracy_scoring(y_true, y_pred) ==
    LET total == SeqAccuracyTotal(y_true, y_pred) IN
    IF total = 0 THEN Zero
    ELSE Score(ZipMatches(y_true, y_pred), total)

\* A comparison of an aligned pair that forgets the text.
EntityDiffers_NoText(expected_entity, predicted_entity) ==
    \/ expected_entity.type # predicted_entity.type
    \/ expected_entity.span # predicted_entity.span

\* The three tests of the loop body, each returning False.
EntityDiffers(expected_entity, predicted_entity) ==
    IF expected_entity.type # predicted_entity.type THEN TRUE
    ELSE IF expected_entity.span # predicted_entity.span THEN TRUE
    ELSE IF expected_entity.text # predicted_entity.text THEN TRUE
    ELSE FALSE

\* for expected_entity, predicted_entity in zip(expected, predicted): ...
RECURSIVE EntityLoop(_, _)
EntityLoop(expected, predicted) ==
    IF expected = <<>> \/ predicted = <<>> THEN TRUE
    ELSE IF EntityDiffers(Head(expected), Head(predicted)) THEN FALSE
    ELSE EntityLoop(Tail(expected), Tail(predicted))

entity_seqs_equal(expected, predicted) ==
    IF Len(expected) # Len(predicted) THEN FALSE
    ELSE EntityLoop(expected, predicted)

----------------------------------------------------------------------------
(* The helper specification: one call of a helper on bounded arguments     *)

MaxTokenLen == 3
MaxTokens == 3
MaxNgram == 3
MaxExamples == 3
MaxEntities == 2

\* Characters of the tokens given to mask_numerics: digits, a letter, punctuation.
MaskChars == {"1", "8", "a", "-"}
\* Words of the token lists given to get_ngram.
Words == {<<"a">>, <<"b">>}
\* Tag sequences of the examples given to sequence_accuracy_scoring.
TagSeqs == {<<"O">>, <<"B">>, <<"B", "I">>}
\* Entities given to entity_seqs_equal: one entity and three that differ
\* from it in the type, in the span and in the text only.
Entities ==
    {[type |-> "city", span |-> <<0, 2>>, text |-> "sf"],
     [type |-> "name", span |-> <<0, 2>>, text |-> "sf"],
     [type |-> "city", span |-> <<3, 5>>, text |-> "sf"],
     [type |-> "city", span |-> <<0, 2>>, text |-> "la"]}

MaskInputs ==
    {[fn |-> "mask_numerics", token |-> t] : t \in SeqsUpTo(MaskChars, MaxTokenLen)}

NgramInputs ==
    {[fn |-> "get_ngram", tokens |-> ts, start |-> st, length |-> n] :
        ts \in SeqsUpTo(Words, MaxTokens), st \in (0 - MaxNgram)..MaxTokens, n \in 0..MaxNgram}

ScoringInputs ==
    {[fn |-> "sequence_accuracy_scoring", y_true |-> yt, y_pred |-> yp] :
        yt \in SeqsUpTo(TagSeqs, MaxExamples), yp \in SeqsUpTo(TagSeqs, MaxExamples)}

EntityInputs ==
    {[fn |-> "entity_seqs_equal", expected |-> e, predicted |-> q] :
        e \in SeqsUpTo(Entities, MaxEntities), q \in SeqsUpTo(Entities, MaxEntities)}

InitRegistriesIdle ==
    /\ MODEL_MAP = EmptyMap
    /\ FEATURE_MAP = EmptyMap
    /\ LABEL_MAP = EmptyMap
    /\ call = NoCall

InitPure ==
    /\ input \in MaskInputs \cup NgramInputs \cup ScoringInputs \cup EntityInputs
    /\ output = None
    /\ done = FALSE
    /\ InitRegistriesIdle
    /\ InitThreads
    /\ InitGazIdle
    /\ InitReqIdle

Returns(fn, value) ==
    /\ ~done
    /\ input.fn = fn
    /\ output' = value
    /\ done' = TRUE
    /\ UNCHANGED <<input, regVars, call, thrVars, gazVars, reqVars>>

MaskNumerics == Returns("mask_numerics", mask_numerics(input.token))

GetNgram == Returns("get_ngram", get_ngram(input.tokens, input.start, input.length))

SequenceAccuracyScoring ==
    Returns("sequence_accuracy_scoring", sequence_accuracy_scoring(input.y_true, input.y_pred))

EntitySeqsEqual ==
    Returns("entity_seqs_equal", entity_seqs_equal(input.expected, input.predicted))

NextPure ==
    \/ MaskNumerics
    \/ GetNgram
    \/ SequenceAccuracyScoring
    \/ EntitySeqsEqual

SpecPure == InitPure /\ [][NextPure]_vars

Returned(fn) == done /\ input.fn = fn

\* C5: sequence_accuracy_scoring returns 0 when y_true is empty; otherwise
\* m / len(y_true), m the number of positions below both lengths at which
\* the whole true sequence equals the whole predicted one; the result lies
\* between 0 and 1.
C5_SequenceAccuracy ==
    Returned("sequence_accuracy_scoring") =>
        LET yt == input.y_true
            yp == input.y_pred
            m == Cardinality({i \in 1..Min(Len(yt), Len(yp)) : yt[i] = yp[i]})
        IN /\ output = (IF Len(yt) = 0 THEN Zero ELSE Score(m, Len(yt)))
           /\ 0 <= output.num /\ output.num <= output.den

\* y_pred is longer than y_true, its extra position is ignored, and one of
\* the two aligned positions matches: the score is 1/2.
C5_Witness ==
    /\ Returned("sequence_accuracy_scoring")
    /\ Len(input.y_pred) > Len(input.y_true)
    /\ output = Score(1, 2)

\* C6: entity_seqs_equal returns true if and only if the lists have the same
\* length and every aligned pair agrees in type, span and text.
C6_EntitySeqsEqual ==
    Returned("entity_seqs_equal") =>
        LET e == input.expected
            q == input.predicted
        IN output = (/\ Len(e) = Len(q)
                     /\ \A i \in 1..Len(e) :
                           /\ e[i].type = q[i].type
                           /\ e[i].span = q[i].span
                           /\ e[i].text = q[i].text)

\* Two lists of the same length whose last pair differs only in the text
\* compared unequal.
C6_Witness ==
    /\ Returned("entity_seqs_equal")
    /\ Len(input.expected) = Len(input.predicted)
    /\ Len(input.expected) > 0
    /\ LET n == Len(input.expected) IN
          /\ input.expected[n].type = input.predicted[n].type
          /\ input.expected[n].span = input.predicted[n].span
          /\ input.expected[n].text # input.predicted[n].text
          /\ \A i \in 1..(n - 1) : input.expected[i] = input.predicted[i]
    /\ output = FALSE

\* C7: get_ngram returns the space-joined sequence of exactly `length`
\* items, the k-th being tokens[start+k] when that index is inside the list
\* and '<$>' otherwise; a negative index is never resolved from the end.
C7_GetNgram ==
    Returned("get_ngram") =>
        LET items == [k \in 1..input.length |->
                        LET index == input.start + k - 1 IN
                        IF 0 <= index /\ index < Len(input.tokens)
                        THEN input.tokens[index + 1]
                        ELSE OUT_OF_BOUNDS_TOKEN]
        IN output = Join(items)

\* get_ngram(["a", "b", "b"], -1, 2) returned "<$> a".
C7_Witness ==
    /\ Returned("get_ngram")
    /\ input.tokens = <<(<<"a">>), (<<"b">>), (<<"b">>)>>
    /\ input.start = 0 - 1
    /\ input.length = 2
    /\ output = <<"<", "$", ">", " ", "a">>

\* C8 as stated: a token made only of digit characters gives '#NUM', any
\* other token gives a result of the same length with each digit replaced
\* by '8' and each other character unchanged.
C8_MaskNumericsAsStated ==
    Returned("mask_numerics") =>
        LET t == input.token IN
        IF \A i \in 1..Len(t) : IsDigit(t[i])
        THEN output = NUM
        ELSE /\ Len(output) = Len(t)
             /\ \A i \in 1..Len(t) : output[i] = (IF IsDigit(t[i]) THEN "8" ELSE t[i])

\* C8 amended: a non-empty token made only of digit characters gives
\* '#NUM'; any other token, the empty one included, gives a result of the
\* same length with each digit replaced by '8' and each other character
\* unchanged.
C8_MaskNumerics ==
    Returned("mask_numerics") =>
        LET t == input.token IN
        IF Len(t) > 0 /\ \A i \in 1..Len(t) : IsDigit(t[i])
        THEN output = NUM
        ELSE /\ Len(output) = Len(t)
             /\ \A i \in 1..Len(t) : output[i] = (IF IsDigit(t[i]) THEN "8" ELSE t[i])

\* mask_numerics of a token with two digits and a non-digit: both digits
\* are masked.
C8_Witness ==
    /\ Returned("mask_numerics")
    /\ Len(input.token) = 3
    /\ Cardinality({i \in 1..3 : IsDigit(input.token[i])}) = 2
    /\ input.token[1] = "1"
    /\ output # input.token
    /\ output # NUM

----------------------------------------------------------------------------
(* Python dicts with identity: a heap of dict objects                      *)

\* A dict object maps keys to items: an integer, or a reference to another
\* dict object of the heap. The heap is a sequence; an address is an index.
IntItem(n) == [t |-> "int", v |-> n]
RefItem(a) == [t |-> "ref", v |-> a]
\* In a nested value (no identities) a dict item holds the dict itself.
DictItem(d) == [t |-> "dict", v |-> d]

\* The nested value of the dict at address a: what == compares.
RECURSIVE DeepValue(_, _)
DeepValue(h, a) ==
    [k \in DOMAIN h[a] |->
        IF h[a][k].t = "ref" THEN DictItem(DeepValue(h, h[a][k].v)) ELSE h[a][k]]

\* Building the objects of a nested value d on heap h: the new heap and
\* the address of the new dict.
RECURSIVE Store(_, _), StoreItems(_, _, _, _)
StoreItems(h, d, keys, acc) ==
    IF keys = {} THEN [heap |-> h, obj |-> acc]
    ELSE LET k == CHOOSE x \in keys : TRUE IN
         IF d[k].t = "dict"
         THEN LET c == Store(h, d[k].v) IN
              StoreItems(c.heap, d, keys \ {k}, SetItem(acc, k, RefItem(c.addr)))
         ELSE StoreItems(h, d, keys \ {k}, SetItem(acc, k, d[k]))
Store(h, d) ==
    LET r == StoreItems(h, d, DOMAIN d, EmptyMap) IN
    [heap |-> Append(r.heap, r.obj), addr |-> Len(r.heap) + 1]

\* copy.copy(resource): a new top-level dict whose items are the same objects.
CopyOf_Shallow(h, a) == [heap |-> Append(h, h[a]), addr |-> Len(h) + 1]

\* copy.deepcopy(x) of the dict at address a: every dict reachable from a
\* is copied into a new object.
RECURSIVE DeepCopy(_, _), DeepCopyItems(_, _, _, _)
DeepCopyItems(h, obj, keys, acc) ==
    IF keys = {} THEN [heap |-> h, obj |-> acc]
    ELSE LET k == CHOOSE x \in keys : TRUE IN
         IF obj[k].t = "ref"
         THEN LET c == DeepCopy(h, obj[k].v) IN
              DeepCopyItems(c.heap, obj, keys \ {k}, SetItem(acc, k, RefItem(c.addr)))
         ELSE DeepCopyItems(h, obj, keys \ {k}, SetItem(acc, k, obj[k]))
DeepCopy(h, a) ==
    LET r == DeepCopyItems(h, h[a], DOMAIN h[a], EmptyMap) IN
    [heap |-> Append(r.heap, r.obj), addr |-> Len(r.heap) + 1]

\* line 238: workspace_resource = copy.deepcopy(resource)
CopyOf(h, a) == DeepCopy(h, a)

\* h with h[a][key] = item.
HeapSetItem(h, a, key, item) == [h EXCEPT ![a] = SetItem(h[a], key, item)]

----------------------------------------------------------------------------
(* The Gazetteer class (mmworkbench/gazetteer.py), as far as ingestion     *)
(* uses it: a name, an entity count and per-key counts, loaded from and    *)
(* serialized to a dict with `total_entities` and `pop_dict`.              *)

GAZETTEER_RSC == "gazetteers"

Max(a, b) == IF a > b THEN a ELSE b

\* Gazetteer(entity): an empty gazetteer with a pop_dict of its own.
Gazetteer(h, name) ==
    [heap |-> Append(h, EmptyMap),
     gaz |-> [name |-> name, total_entities |-> 0, pop_dict |-> Len(h) + 1]]

\* new_gaz.from_dict(d): the gazetteer takes the fields of the dict at d.
from_dict(h, gaz, d) ==
    [gaz EXCEPT !.total_entities = h[d]["total_entities"].v,
                !.pop_dict = h[d]["pop_dict"].v]

\* new_gaz._update_entity(key, count): merges the count of one key.
\* Returns the heap and the gazetteer after the update.
update_entity(h, gaz, key, count) ==
    LET pop == h[gaz.pop_dict]
        known == key \in DOMAIN pop
        merged == IF known THEN Max(pop[key].v, count) ELSE count
    IN [heap |-> HeapSetItem(h, gaz.pop_dict, key, IntItem(merged)),
        gaz |-> [gaz EXCEPT !.total_entities = IF known THEN @ ELSE @ + 1]]

\* new_gaz.to_dict(): a new dict with the gazetteer's fields.
to_dict(h, gaz) ==
    [heap |-> Append(h, SetItem(SetItem(EmptyMap, "total_entities", IntItem(gaz.total_entities)),
                                "pop_dict", RefItem(gaz.pop_dict))),
     addr |-> Len(h) + 1]

----------------------------------------------------------------------------
(* ingest_dynamic_gazetteer                                                *)

\* A dynamic resource is only read: it is held by value. Python's None is
\* the value of kind "None".
NoDynamic == [kind |-> "None", items |-> EmptyMap]
DynamicDict(items) == [kind |-> "dict", items |-> items]

\* line 239: `dynamic_resource and GAZETTEER_RSC in dynamic_resource`
HasDynamicGazetteer(dyn) ==
    /\ dyn.kind = "dict"
    /\ DOMAIN dyn.items # {}
    /\ GAZETTEER_RSC \in DOMAIN dyn.items

\* A guard that merges whatever the existing count is.
HasEntities_Always(h, entry) == TRUE

\* line 244: workspace_resource[GAZETTEER_RSC][entity]['total_entities'] > 0
HasEntities(h, entry) == h[entry]["total_entities"].v > 0

\* line 241: entity in workspace_resource[GAZETTEER_RSC]
EntityInWorkspace(h, section, entity) == entity \in DOMAIN h[section]

\* lines 245-246: for key in dynamic_resource[GAZETTEER_RSC][entity]: update
RECURSIVE UpdateKeys(_, _, _, _)
UpdateKeys(h, gaz, dyn_entry, keys) ==
    IF keys = {} THEN [heap |-> h, gaz |-> gaz]
    ELSE LET key == CHOOSE x \in keys : TRUE
             u == update_entity(h, gaz, key, dyn_entry[key])
         IN UpdateKeys(u.heap, u.gaz, dyn_entry, keys \ {key})

\* lines 242-247, for an entity of the workspace's gazetteer section.
IngestEntity(h, section, entity, dyn_entry) ==
    LET entry == h[section][entity].v
        g0 == Gazetteer(h, entity)
        g1 == [heap |-> g0.heap, gaz |-> from_dict(g0.heap, g0.gaz, entry)]
        g2 == IF HasEntities(g1.heap, entry)
              THEN UpdateKeys(g1.heap, g1.gaz, dyn_entry, DOMAIN dyn_entry)
              ELSE g1
        d == to_dict(g2.heap, g2.gaz)
    IN HeapSetItem(d.heap, section, entity, RefItem(d.addr))

\* lines 240-247: the loop over the dynamic entities. Subscripting a
\* workspace without a gazetteer section raises KeyError.
RECURSIVE IngestEntities(_, _, _, _)
IngestEntities(h, workspace_resource, dyn_gaz, entities) ==
    IF entities = {} THEN [heap |-> h, raised |-> FALSE]
    ELSE IF GAZETTEER_RSC \notin DOMAIN h[workspace_resource]
    THEN [heap |-> h, raised |-> TRUE]
    ELSE LET entity == CHOOSE x \in entities : TRUE
             section == h[workspace_resource][GAZETTEER_RSC].v
             h1 == IF EntityInWorkspace(h, section, entity)
                   THEN IngestEntity(h, section, entity, dyn_gaz[entity])
                   ELSE h
         IN IngestEntities(h1, workspace_resource, dyn_gaz, entities \ {entity})

\* The whole call on heap h: the heap afterwards and the outcome.
ingest_dynamic_gazetteer(h, rsc, dyn) ==
    LET c == CopyOf(h, rsc)
        r == IF HasDynamicGazetteer(dyn)
             THEN IngestEntities(c.heap, c.addr, dyn.items[GAZETTEER_RSC],
                                 DOMAIN dyn.items[GAZETTEER_RSC])
             ELSE [heap |-> c.heap, raised |-> FALSE]
    IN [heap |-> r.heap,
        outcome |-> IF r.raised THEN Raise("KeyError", GAZETTEER_RSC)
                    ELSE Return(<<c.addr>>)]

----------------------------------------------------------------------------
(* The gazetteer specification: one call on a bounded resource             *)

MaxPop == 2
EntityTypes == {"city", "name"}
GazKeys == {"sf", "la"}

\* All mappings from a subset of D to R.
PartialMaps(D, R) == UNION {[S -> R] : S \in SUBSET D}

\* Entries as a Gazetteer serializes them: total_entities counts the keys.
EntryValue(pop) ==
    SetItem(SetItem(EmptyMap, "total_entities", IntItem(Cardinality(DOMAIN pop))),
            "pop_dict", DictItem(pop))

BaseEntries == {EntryValue(pop) : pop \in PartialMaps(GazKeys, {IntItem(n) : n \in 1..MaxPop})}

\* Base resources, as nested values: without a gazetteer section, or with
\* one holding an entry for some of the entity types.
BaseResources ==
    {EmptyMap} \cup
    {SetItem(EmptyMap, GAZETTEER_RSC, DictItem(sec)) :
        sec \in PartialMaps(EntityTypes, {DictItem(e) : e \in BaseEntries})}

\* Dynamic resources: None, an empty dict, or a dict with a gazetteer
\* section of per-key counts for some of the entity types.
DynamicResources ==
    {NoDynamic, DynamicDict(EmptyMap)} \cup
    {DynamicDict(SetItem(EmptyMap, GAZETTEER_RSC, sec)) :
        sec \in PartialMaps(EntityTypes, PartialMaps(GazKeys, 1..MaxPop))}

InitGaz ==
    /\ \E base \in BaseResources :
          LET b == Store(<<>>, base) IN
          /\ heap = b.heap
          /\ resource = b.addr
    /\ dynamic_resource \in DynamicResources
    /\ before = <<>>
    /\ returned = NoOutcome
    /\ InitRegistriesIdle
    /\ InitThreads
    /\ InitPureIdle
    /\ InitReqIdle

IngestDynamicGazetteer ==
    /\ returned = NoOutcome
    /\ LET r == ingest_dynamic_gazetteer(heap, resource, dynamic_resource) IN
          /\ heap' = r.heap
          /\ returned' = r.outcome
    /\ before' = heap
    /\ UNCHANGED <<resource, dynamic_resource, regVars, call, thrVars, pureVars, reqVars>>

NextGaz == IngestDynamicGazetteer

SpecGaz == InitGaz /\ [][NextGaz]_vars

\* The address the call returned.
Workspace == returned.value[1]

\* The dynamic gazetteer section the call iterates over, if any.
DynamicSection ==
    IF HasDynamicGazetteer(dynamic_resource) THEN dynamic_resource.items[GAZETTEER_RSC]
    ELSE EmptyMap

\* C3: ingest_dynamic_gazetteer never mutates its resource argument: every
\* dict that existed before the call is unchanged after it, so the value of
\* resource is what it was; the returned mapping is a distinct, new object;
\* and with dynamic_resource None it is equal in value to resource.
C3_ResourceNotMutated ==
    returned # NoOutcome =>
        /\ \A a \in DOMAIN before : heap[a] = before[a]
        /\ DeepValue(heap, resource) = DeepValue(before, resource)
        /\ returned.kind = "return" =>
              /\ Workspace # resource
              /\ Workspace \notin DOMAIN before
        /\ dynamic_resource = NoDynamic =>
              /\ returned.kind = "return"
              /\ DeepValue(heap, Workspace) = DeepValue(before, resource)

\* A call with a dynamic gazetteer section returned a merged copy that
\* differs in value from the resource, which is as it was.
C3_Witness ==
    /\ returned.kind = "return"
    /\ HasDynamicGazetteer(dynamic_resource)
    /\ DeepValue(heap, Workspace) # DeepValue(heap, resource)
    /\ DeepValue(heap, resource) = DeepValue(before, resource)

\* C4: a dynamic entity type absent from the base gazetteer section is not
\* added to the result; an entity type whose base entry has total_entities
\* equal to 0 has an entry in the result equal to its base entry; dynamic
\* keys are merged only into entity types present in both with
\* total_entities > 0, and every other entry equals its base entry.
C4_SkippedEntitiesUntouched ==
    returned.kind = "return" =>
        LET base == DeepValue(before, resource)
            result == DeepValue(heap, Workspace)
        IN IF GAZETTEER_RSC \notin DOMAIN base THEN result = base
           ELSE LET bsec == base[GAZETTEER_RSC].v
                    rsec == result[GAZETTEER_RSC].v
                IN /\ DOMAIN result = DOMAIN base
                   /\ DOMAIN rsec = DOMAIN bsec
                   /\ \A e \in DOMAIN bsec :
                         IF e \in DOMAIN DynamicSection /\ bsec[e].v["total_entities"].v > 0
                         THEN LET pop == rsec[e].v["pop_dict"].v IN
                              /\ \A k \in DOMAIN DynamicSection[e] : k \in DOMAIN pop
                              /\ DOMAIN pop \subseteq
                                    DOMAIN bsec[e].v["pop_dict"].v \cup DOMAIN DynamicSection[e]
                         ELSE rsec[e] = bsec[e]

\* The dynamic section names one entity type the base lacks and one whose
\* base entry has no entities, each with keys to merge, and the call
\* returned.
C4_Witness ==
    /\ returned.kind = "return"
    /\ GAZETTEER_RSC \in DOMAIN before[resource]
    /\ LET bsec == DeepValue(before, resource)[GAZETTEER_RSC].v IN
          /\ \E e \in DOMAIN DynamicSection :
                e \notin DOMAIN bsec /\ DOMAIN DynamicSection[e] # {}
          /\ \E e \in DOMAIN DynamicSection :
                /\ e \in DOMAIN bsec
                /\ bsec[e].v["total_entities"].v = 0
                /\ DOMAIN DynamicSection[e] # {}

----------------------------------------------------------------------------
(* requires: the resource-requirement decorator                            *)

QUERY_FREQ_RSC == "q_freq"
WORD_FREQ_RSC == "w_freq"

\* Feature extractor functions being decorated, and the resources declared.
Funcs == {"extract_in_gaz", "extract_ngrams"}
Resources == {GAZETTEER_RSC, QUERY_FREQ_RSC, WORD_FREQ_RSC}

\* No `requirements` key in func.__dict__.
NoAttr == 0

\* A default set created once and handed to every function without the
\* attribute.
GetRequirements_SharedDefault(func) ==
    IF requirements[func] # NoAttr THEN [sets |-> sets, req |-> requirements[func]]
    ELSE IF sets = <<>> THEN [sets |-> <<{}>>, req |-> 1]
    ELSE [sets |-> sets, req |-> 1]

\* line 263: req = func.__dict__.get('requirements', set())
\* The set objects after the call and the address of req.
GetRequirements(func) ==
    IF requirements[func] # NoAttr THEN [sets |-> sets, req |-> requirements[func]]
    ELSE [sets |-> Append(sets, {}), req |-> Len(sets) + 1]

\* lines 262-266: add_resource(func), the decorator requires(rsc) returns.
add_resource(rsc, func) ==
    LET g == GetRequirements(func) IN
    /\ sets' = [g.sets EXCEPT ![g.req] = @ \cup {rsc}]
    /\ requirements' = [requirements EXCEPT ![func] = g.req]
    /\ decorated' = [resource |-> rsc, func |-> func, returned |-> func]
    /\ applied' = [applied EXCEPT ![func] = @ \cup {rsc}]

InitReq ==
    /\ requirements = [f \in Funcs |-> NoAttr]
    /\ sets = <<>>
    /\ applied = [f \in Funcs |-> {}]
    /\ decorated = [resource |-> None, func |-> None, returned |-> None]
    /\ InitRegistriesIdle
    /\ InitThreads
    /\ InitPureIdle
    /\ InitGazIdle

Requires ==
    /\ \E rsc \in Resources, func \in Funcs : add_resource(rsc, func)
    /\ UNCHANGED <<regVars, call, thrVars, pureVars, gazVars>>

NextReq == Requires

SpecReq == InitReq /\ [][NextReq]_vars

\* C9: after any sequence of requires(r1), ..., requires(rn) applied to a
\* function, its requirements attribute is exactly {r1, ..., rn}; it is
\* absent before the first application; later applications add to the same
\* set object; the decorator returns the function it was given; and no two
\* functions share a requirement set.
C9_RequirementsAccumulate ==
    /\ [](/\ \A f \in Funcs :
              IF applied[f] = {} THEN requirements[f] = NoAttr
              ELSE /\ requirements[f] \in 1..Len(sets)
                   /\ sets[requirements[f]] = applied[f]
          /\ \A f \in Funcs, g \in Funcs :
              f # g /\ requirements[f] # NoAttr => requirements[f] # requirements[g]
          /\ decorated.returned = decorated.func)
    /\ [][\A f \in Funcs :
            requirements[f] # NoAttr => requirements'[f] = requirements[f]]_vars

\* Both functions are decorated; one of them was given "gazetteers" and
\* "w_freq" and holds exactly those two, the other holds a different set.
C9_Witness ==
    \E f \in Funcs, g \in Funcs :
        /\ f # g
        /\ applied[f] = {GAZETTEER_RSC, WORD_FREQ_RSC}
        /\ sets[requirements[f]] = {GAZETTEER_RSC, WORD_FREQ_RSC}
        /\ requirements[g] # NoAttr
        /\ sets[requirements[g]] = {QUERY_FREQ_RSC}

====
